---- MODULE Spec2Model ----
(***************************************************************************)
(* Model of main.py: the Instapaper-highlights-to-markdown exporter.       *)
(*                                                                         *)
(* A Python str is a sequence of one-character strings, so that repr,      *)
(* replace, strip, filter and the file writes are computed character by    *)
(* character.  A file is the sequence of characters written to it.         *)
(***************************************************************************)
EXTENDS Integers, Sequences, FiniteSets, TLC

VARIABLES
    argc,        \* len(sys.argv)
    file_ok,     \* whether open()/json.load() of the input succeeds
    json_file,   \* the record sequence stored in the input file
    parsed_json, \* the loaded records (empty until process_json loads them)
    urls,        \* the set returned by get_documents_urls
    documents,   \* the list built by the first loop of process_json
    status,      \* the loop counter of process_json
    fs,          \* working directory: filename -> content
    stdout,      \* the messages printed
    raised,      \* the exception that ended the run ("" if none)
    pc,          \* position in main / process_json
    arg,         \* argument of a directly called function
    ret,         \* its return value
    fpc          \* "call" before, "returned" after the direct call

vars == <<argc, file_ok, json_file, parsed_json, urls, documents, status,
          fs, stdout, raised, pc, arg, ret, fpc>>

progvars == <<argc, file_ok, json_file, parsed_json, urls, documents, status,
              fs, stdout, raised, pc>>

-----------------------------------------------------------------------------
(* Bounds *)

MaxRecs == 3

MaxArgc == 3

MaxLen == 3

MaxTitles == 2

-----------------------------------------------------------------------------
(* Strings *)

Range(s) == {s[i] : i \in 1..Len(s)}

RECURSIVE Concat(_)
Concat(ss) == IF ss = <<>> THEN <<>> ELSE Head(ss) \o Concat(Tail(ss))

\* str.replace(old, new) for a one-character old
replace(s, old, new) == Concat([i \in 1..Len(s) |-> IF s[i] = old THEN new ELSE <<s[i]>>])

\* str.rstrip(chars)
RECURSIVE rstrip(_, _)
rstrip(s, chars) ==
    IF s # <<>> /\ s[Len(s)] \in chars THEN rstrip(SubSeq(s, 1, Len(s) - 1), chars) ELSE s

RECURSIVE lstrip(_, _)
lstrip(s, chars) ==
    IF s # <<>> /\ Head(s) \in chars THEN lstrip(Tail(s), chars) ELSE s

\* the characters str.strip() removes that can occur here
Whitespace == {" ", "\t", "\n", "\r"}

strip(s) == lstrip(rstrip(s, Whitespace), Whitespace)

\* sep.join(parts)
RECURSIVE join(_, _)
join(sep, parts) ==
    IF parts = <<>> THEN <<>>
    ELSE IF Len(parts) = 1 THEN parts[1]
    ELSE parts[1] \o sep \o join(sep, Tail(parts))

\* string.ascii_letters
ascii_letters ==
    {"a","b","c","d","e","f","g","h","i","j","k","l","m",
     "n","o","p","q","r","s","t","u","v","w","x","y","z",
     "A","B","C","D","E","F","G","H","I","J","K","L","M",
     "N","O","P","Q","R","S","T","U","V","W","X","Y","Z"}

\* a field a record does not have
Absent == <<"<absent>">>

-----------------------------------------------------------------------------
(* repr *)

\* the quote character repr(str) chooses
repr_quote(s) == IF "'" \in Range(s) /\ "\"" \notin Range(s) THEN "\"" ELSE "'"

\* repr(str): quoted, with backslash, the quote and control characters escaped
repr_str(s) ==
    LET q == repr_quote(s)
        esc(c) == IF c = "\\" THEN <<"\\", "\\">>
                  ELSE IF c = q THEN <<"\\", c>>
                  ELSE IF c = "\t" THEN <<"\\", "t">>
                  ELSE IF c = "\n" THEN <<"\\", "n">>
                  ELSE IF c = "\r" THEN <<"\\", "r">>
                  ELSE <<c>>
    IN <<q>> \o Concat([i \in 1..Len(s) |-> esc(s[i])]) \o <<q>>

\* the orders in which a set can be iterated
iter_orders(S) ==
    {f \in [1..Cardinality(S) -> S] : \A i, j \in 1..Cardinality(S) : f[i] = f[j] => i = j}

\* repr(set) for the iteration order given
repr_set(order) ==
    IF order = <<>> THEN <<"s", "e", "t", "(", ")">>
    ELSE <<"{">> \o join(<<",", " ">>, [i \in 1..Len(order) |-> repr_str(order[i])]) \o <<"}">>

-----------------------------------------------------------------------------
(* The functions of main.py *)

\* get_documents_urls stopping one record short
get_documents_urls_short(json) == {json[i].source : i \in 1..(Len(json) - 1)}

get_documents_urls(json) == {json[i].source : i \in 1..Len(json)}

\* clean_title for one iteration order of the set
clean_title_of(order) ==
    strip(rstrip(replace(replace(replace(replace(repr_set(order),
        "{", <<>>), "}", <<>>), "'", <<>>), "\"", <<>>), {"."}))

\* the values clean_title(title_set) can return
clean_title(title_set) == {clean_title_of(order) : order \in iter_orders(title_set)}

\* printable with the digits kept too
printable_alnum ==
    ascii_letters \cup {" "} \cup {"0", "1", "2", "3", "4", "5", "6", "7", "8", "9"}

printable == ascii_letters \cup {" "}

get_filename_from_title(title) ==
    replace(strip(SelectSeq(title, LAMBDA x : x \in printable)), " ", <<"_">>)
        \o <<".", "m", "d">>


\* title_set keeping only the title of the first record of the url
title_set_first(url, json) ==
    LET m == SelectSeq(json, LAMBDA x : x.source = url)
    IN IF m = <<>> THEN {} ELSE {m[1].title}

\* set([x['title'] for x in parsed_json if x['source'] == url])
title_set(url, json) == {json[i].title : i \in {j \in 1..Len(json) : json[j].source = url}}

\* [x['highlight'] for x in parsed_json if x['source'] == url]
highlight_list(url, json) ==
    LET m == SelectSeq(json, LAMBDA x : x.source = url)
    IN [i \in 1..Len(m) |-> m[i].highlight]

\* highlight['source'] raises KeyError in get_documents_urls
urls_key_error(json) == \E i \in 1..Len(json) : json[i].source = Absent

\* url_key_error looking at the title only
url_key_error_title(url, json) ==
    \E i \in 1..Len(json) : json[i].source = url /\ json[i].title = Absent

\* x['title'] or x['highlight'] raises KeyError in process_url
url_key_error(url, json) ==
    \E i \in 1..Len(json) :
        json[i].source = url /\ (json[i].title = Absent \/ json[i].highlight = Absent)

\* the documents process_url can return (one per iteration order of the title set)
process_url(url, json) ==
    {[url |-> url, title |-> t, highlights |-> highlight_list(url, json)] :
        t \in clean_title(title_set(url, json))}

\* reversed without the reversal
reversed_kept(highlights) == highlights

\* document['highlights'][::-1]
reversed(highlights) == [i \in 1..Len(highlights) |-> highlights[Len(highlights) + 1 - i]]

\* open_w opening for append
open_a(files, output_path) ==
    IF output_path \in DOMAIN files THEN files[output_path] ELSE <<>>

\* codecs.open(output_path, 'w', 'utf-8'): the content the file starts with
open_w(files, output_path) == <<>>

\* write_lines without the line breaks
RECURSIVE write_lines_raw(_, _)
write_lines_raw(f, lines) ==
    IF lines = <<>> THEN f ELSE write_lines_raw(f \o Head(lines), Tail(lines))

\* f.write(line + '\n') for each line
RECURSIVE write_lines(_, _)
write_lines(f, lines) ==
    IF lines = <<>> THEN f ELSE write_lines(f \o Head(lines) \o <<"\n">>, Tail(lines))

\* the working directory after process_document(document)
process_document(document, files) ==
    LET output_path == get_filename_from_title(document.title)
        f0 == open_w(files, output_path)
        f1 == f0 \o (<<"#", " ">> \o document.title \o <<"\n">>)
        f2 == f1 \o (<<"[", "S", "o", "u", "r", "c", "e", "]", "(">> \o document.url
                        \o <<")">> \o <<"\n">>)
        f3 == write_lines(f2, reversed(document.highlights))
    IN (output_path :> f3) @@ files

\* run_requested accepting extra arguments
run_requested_ge(n) == n >= 2

\* len(sys.argv) == 2
run_requested(n) == n = 2

\* the message main prints
Usage == <<"Usage: \npython main.py file_highlights.json">>

-----------------------------------------------------------------------------
(* Inputs *)

\* records of two sources: repeated and differing titles and highlights within a
\* source, and a title shared by the two sources
WellFormed ==
    {[source |-> <<"u", "1">>, title |-> <<"A">>, highlight |-> <<"h", "1">>],
     [source |-> <<"u", "1">>, title |-> <<"A">>, highlight |-> <<"h", "2">>],
     [source |-> <<"u", "1">>, title |-> <<" ", "b", "'", ".">>, highlight |-> <<"h", "1">>],
     [source |-> <<"u", "1">>, title |-> <<"c", "\\", "\"", "'">>, highlight |-> <<"h", "2">>],
     [source |-> <<"u", "2">>, title |-> <<"A">>, highlight |-> <<"h", "1">>],
     [source |-> <<"u", "2">>, title |-> <<"A">>, highlight |-> <<"h", "2">>],
     [source |-> <<"u", "2">>, title |-> <<" ", "b", "'", ".">>, highlight |-> <<"h", "2">>]}

Malformed ==
    {[source |-> Absent, title |-> <<"A">>, highlight |-> <<"h", "1">>],
     [source |-> <<"u", "1">>, title |-> Absent, highlight |-> <<"h", "1">>],
     [source |-> <<"u", "2">>, title |-> <<"A">>, highlight |-> Absent]}

RecordPool == WellFormed \cup Malformed

Inputs == UNION {[1..n -> RecordPool] : n \in 0..MaxRecs}

NoFiles == <<>>

\* a file left by an earlier run
StaleFiles == (<<"A", ".", "m", "d">> :> <<"o", "l", "d", "\n">>)

-----------------------------------------------------------------------------
(* main and process_json *)

NoCall == arg = <<>> /\ ret = <<>> /\ fpc = "none"

Init ==
    /\ argc \in 1..MaxArgc
    /\ \/ file_ok = TRUE /\ json_file \in Inputs
       \/ file_ok = FALSE /\ json_file = <<>>
    /\ fs \in {NoFiles, StaleFiles}
    /\ parsed_json = <<>>
    /\ urls = {}
    /\ documents = <<>>
    /\ status = 0
    /\ stdout = <<>>
    /\ raised = ""
    /\ pc = "main"
    /\ NoCall

\* main, wrong number of arguments: print the usage message
main_usage ==
    /\ pc = "main"
    /\ ~run_requested(argc)
    /\ stdout' = Append(stdout, Usage)
    /\ pc' = "exit"
    /\ UNCHANGED <<argc, file_ok, json_file, parsed_json, urls, documents, status,
                   fs, raised, arg, ret, fpc>>

\* process_json: open() or json.load() fails
load_fails ==
    /\ pc = "main"
    /\ run_requested(argc)
    /\ ~file_ok
    /\ raised' = "OSError"
    /\ pc' = "error"
    /\ UNCHANGED <<argc, file_ok, json_file, parsed_json, urls, documents, status,
                   fs, stdout, arg, ret, fpc>>

\* process_json up to the first loop: load the records, collect the urls
load_json ==
    /\ pc = "main"
    /\ run_requested(argc)
    /\ file_ok
    /\ parsed_json' = json_file
    /\ IF urls_key_error(json_file)
       THEN /\ raised' = "KeyError"
            /\ pc' = "error"
            /\ UNCHANGED <<urls, status, documents>>
       ELSE /\ urls' = get_documents_urls(json_file)
            /\ status' = 0
            /\ documents' = <<>>
            /\ pc' = "build"
            /\ UNCHANGED raised
    /\ UNCHANGED <<argc, file_ok, json_file, fs, stdout, arg, ret, fpc>>

\* the urls the first loop has yet to visit
pending == urls \ {documents[i].url : i \in 1..Len(documents)}

\* one iteration of the first loop: build the document of one url
build_step ==
    /\ pc = "build"
    /\ \E url \in pending :
         IF url_key_error(url, parsed_json)
         THEN /\ raised' = "KeyError"
              /\ pc' = "error"
              /\ status' = status + 1
              /\ UNCHANGED documents
         ELSE /\ \E document \in process_url(url, parsed_json) :
                    documents' = Append(documents, document)
              /\ status' = status + 1
              /\ UNCHANGED <<raised, pc>>
    /\ UNCHANGED <<argc, file_ok, json_file, parsed_json, urls, fs, stdout, arg, ret, fpc>>

\* the first loop ends: start the second
build_finish ==
    /\ pc = "build"
    /\ pending = {}
    /\ status' = 0
    /\ pc' = "render"
    /\ UNCHANGED <<argc, file_ok, json_file, parsed_json, urls, documents,
                   fs, stdout, raised, arg, ret, fpc>>

\* one iteration of the second loop: write the file of one document
render_step ==
    /\ pc = "render"
    /\ status < Len(documents)
    /\ status' = status + 1
    /\ fs' = process_document(documents[status + 1], fs)
    /\ UNCHANGED <<argc, file_ok, json_file, parsed_json, urls, documents,
                   stdout, raised, pc, arg, ret, fpc>>

\* the second loop ends: process_json and main return
render_finish ==
    /\ pc = "render"
    /\ status = Len(documents)
    /\ pc' = "exit"
    /\ UNCHANGED <<argc, file_ok, json_file, parsed_json, urls, documents, status,
                   fs, stdout, raised, arg, ret, fpc>>

Next ==
    \/ main_usage
    \/ load_fails
    \/ load_json
    \/ build_step
    \/ build_finish
    \/ render_step
    \/ render_finish

Spec == Init /\ [][Next]_vars

-----------------------------------------------------------------------------
(* get_filename_from_title called directly *)

\* main and process_json do not run
NoRun ==
    /\ argc = 1
    /\ file_ok = FALSE
    /\ json_file = <<>>
    /\ parsed_json = <<>>
    /\ urls = {}
    /\ documents = <<>>
    /\ status = 0
    /\ fs = NoFiles
    /\ stdout = <<>>
    /\ raised = ""
    /\ pc = "none"

\* a letter of each case, space, a digit, punctuation, a tab, a non-ASCII letter
TitleChars == {"a", "Z", " ", "1", "#", "\t", "é"}

TipTitle ==
    <<"T", "i", "p", " ", "#", "1", ":", " ", "G", "o", " ", "F", "a", "s", "t", "e", "r", "!">>

TitleStrings == UNION {[1..n -> TitleChars] : n \in 0..MaxLen} \cup {TipTitle}

InitFilename ==
    /\ NoRun
    /\ arg \in TitleStrings
    /\ ret = <<>>
    /\ fpc = "call"

call_get_filename_from_title ==
    /\ fpc = "call"
    /\ ret' = get_filename_from_title(arg)
    /\ fpc' = "returned"
    /\ UNCHANGED <<progvars, arg>>

NextFilename == call_get_filename_from_title

SpecFilename == InitFilename /\ [][NextFilename]_vars

-----------------------------------------------------------------------------
(* clean_title called directly *)

TitlePool ==
    {<<>>, <<"A">>, <<"B", ".">>, <<" ", "a">>, <<"i", "t", "'", "s">>,
     <<"\"", "q", "\"">>, <<"'", "\"">>, <<"\\">>, <<"{", "x", "}">>, <<"\t">>}

TitleSets == {S \in SUBSET TitlePool : Cardinality(S) <= MaxTitles}

InitCleanTitle ==
    /\ NoRun
    /\ arg \in TitleSets
    /\ ret = <<>>
    /\ fpc = "call"

call_clean_title ==
    /\ fpc = "call"
    /\ ret' \in clean_title(arg)
    /\ fpc' = "returned"
    /\ UNCHANGED <<progvars, arg>>

NextCleanTitle == call_clean_title

SpecCleanTitle == InitCleanTitle /\ [][NextCleanTitle]_vars

-----------------------------------------------------------------------------
(* Properties *)

\* the distinct `source` values of the input
DistinctSources == {json_file[i].source : i \in 1..Len(json_file)}

\* the highlights of the input records of source u, in input order
RECURSIVE SourceHighlights(_, _)
SourceHighlights(u, recs) ==
    IF recs = <<>> THEN <<>>
    ELSE (IF Head(recs).source = u THEN <<Head(recs).highlight>> ELSE <<>>)
            \o SourceHighlights(u, Tail(recs))

\* the distinct titles of the input records of source u
SourceTitles(u) == {r.title : r \in {x \in Range(json_file) : x.source = u}}

RECURSIVE Mirror(_)
Mirror(s) == IF s = <<>> THEN <<>> ELSE Mirror(Tail(s)) \o <<Head(s)>>

\* every element followed by a line break
RECURSIVE Lines(_)
Lines(ls) == IF ls = <<>> THEN <<>> ELSE Head(ls) \o <<"\n">> \o Lines(Tail(ls))

PathOf(d) == get_filename_from_title(d.title)

\* the characters before the first highlight: "# " title "\n" "[Source](" url ")" "\n"
HeaderLen(d) == Len(d.title) + Len(d.url) + 14

Rendering(d) ==
    <<"#", " ">> \o d.title \o <<"\n", "[", "S", "o", "u", "r", "c", "e", "]", "(">>
        \o d.url \o <<")", "\n">> \o Lines(Mirror(d.highlights))

\* the working directory as it is before the run
InitialFiles == {NoFiles, StaleFiles}

\* some record of the input lacks `source`, `title` or `highlight`
MissingField ==
    \E i \in 1..Len(json_file) :
        Absent \in {json_file[i].source, json_file[i].title, json_file[i].highlight}

DocumentUrls == {documents[i].url : i \in 1..Len(documents)}

\* C1: when process_json has completed, the number of output files of the run
\* equals the number of distinct `source` values of the input.
C1_OneFilePerSource ==
    (pc = "exit" /\ argc = 2) =>
        Cardinality({p \in DOMAIN fs : \E i \in 1..Len(documents) : p = PathOf(documents[i])})
            = Cardinality(DistinctSources)

\* C2: the highlights written for a Document, i.e. what follows the two header
\* lines of its file, are the input highlights of its url in reverse input order,
\* each on a line of its own.
C2_HighlightsReversed ==
    (pc \in {"render", "exit"} /\ status >= 1) =>
        LET d == documents[status]
            content == fs[PathOf(d)]
        IN SubSeq(content, HeaderLen(d) + 1, Len(content))
              = Lines(Mirror(SourceHighlights(d.url, json_file)))

C2_Witness ==
    /\ pc = "render"
    /\ status >= 1
    /\ SourceHighlights(documents[status].url, json_file) = <<<<"h", "1">>, <<"h", "2">>>>
    /\ LET content == fs[PathOf(documents[status])]
       IN SubSeq(content, Len(content) - 5, Len(content)) = <<"h", "2", "\n", "h", "1", "\n">>

\* C3: after the build pass there is exactly one Document per distinct `source`
\* value of the input: no two Documents share a url, and the urls of the
\* Documents are the distinct sources.
C3_DocumentsMatchSources ==
    (pc = "render" \/ (pc = "exit" /\ argc = 2)) =>
        /\ DocumentUrls = DistinctSources
        /\ \A i, j \in 1..Len(documents) : documents[i].url = documents[j].url => i = j

C3_Witness ==
    /\ pc = "render"
    /\ Len(documents) = 2
    /\ Len(json_file) = 3

\* C4: when a record of the input lacks a field, the run never reaches the render
\* pass nor a normal exit, the build pass cannot run out of urls without failing,
\* and no file is written; and whenever a file has been written, the build pass
\* has built the Documents of all distinct sources.
C4_AbortBeforeOutput ==
    /\ MissingField =>
          /\ fs \in InitialFiles
          /\ pc # "render"
          /\ (pc = "exit" => argc # 2)
          /\ (pc = "build" => pending # {})
    /\ fs \notin InitialFiles =>
          /\ pc \in {"render", "exit"}
          /\ DocumentUrls = DistinctSources

C4_Witness ==
    /\ MissingField
    /\ pc = "error"
    /\ raised = "KeyError"
    /\ Len(documents) >= 1
    /\ fs \in InitialFiles

C6_WrittenContent ==
    (pc \in {"render", "exit"} /\ status >= 1) =>
        fs[PathOf(documents[status])] = Rendering(documents[status])

C6_Witness ==
    /\ pc = "render"
    /\ status = 2
    /\ PathOf(documents[1]) = PathOf(documents[2])
    /\ Len(documents[2].highlights) = 2
    /\ fs[PathOf(documents[2])] = Rendering(documents[2])

\* the title with only its ASCII letters and spaces
RECURSIVE LettersAndSpaces(_)
LettersAndSpaces(t) ==
    IF t = <<>> THEN <<>>
    ELSE (IF Head(t) \in ascii_letters \/ Head(t) = " " THEN <<Head(t)>> ELSE <<>>)
            \o LettersAndSpaces(Tail(t))

\* the filename stem of a title: of its letters and spaces, those from the first
\* letter to the last, each space turned into one underscore
Stem(t) ==
    LET k == LettersAndSpaces(t)
        at == {i \in 1..Len(k) : k[i] # " "}
    IN IF at = {} THEN <<>>
       ELSE LET first == CHOOSE i \in at : \A j \in at : i <= j
                last == CHOOSE i \in at : \A j \in at : j <= i
            IN [i \in 1..(last - first + 1) |->
                    IF k[first + i - 1] = " " THEN "_" ELSE k[first + i - 1]]

\* C7: get_filename_from_title returns the title's letters and spaces, trimmed,
\* each remaining space as one underscore, followed by ".md"; "Tip #1: Go Faster!"
\* gives "Tip__Go_Faster.md" and a title without letters gives ".md".
C7_Filename ==
    fpc = "returned" =>
        /\ ret = Stem(arg) \o <<".", "m", "d">>
        /\ arg = TipTitle =>
              ret = <<"T", "i", "p", "_", "_", "G", "o", "_",
                      "F", "a", "s", "t", "e", "r", ".", "m", "d">>
        /\ Range(arg) \cap ascii_letters = {} => ret = <<".", "m", "d">>

C7_Witness ==
    /\ fpc = "returned"
    /\ arg = TipTitle
    /\ ret = <<"T", "i", "p", "_", "_", "G", "o", "_",
               "F", "a", "s", "t", "e", "r", ".", "m", "d">>

\* C8 as stated: the title of a Document whose url has several distinct titles is
\* those titles joined, in some order, by ", ".
C8_TitlesJoined ==
    \A i \in 1..Len(documents) :
        LET ts == SourceTitles(documents[i].url)
        IN Cardinality(ts) >= 2 =>
              documents[i].title \in {join(<<",", " ">>, order) : order \in iter_orders(ts)}

\* a title as repr writes its characters, without the characters clean_title removes
Bare(t) == SelectSeq(repr_str(t), LAMBDA c : c \notin {"{", "}", "'", "\""})

\* C8 amended: the title of a Document whose url has several distinct titles is
\* those titles, each as repr writes it less its { } ' " characters, joined in
\* some order by ", ", less the trailing periods and then the surrounding
\* whitespace of the joined string; every distinct title gives one joined element.
C8_TitlesJoinedCleaned ==
    \A i \in 1..Len(documents) :
        LET ts == SourceTitles(documents[i].url)
        IN Cardinality(ts) >= 2 =>
              documents[i].title \in
                  {strip(rstrip(join(<<",", " ">>, [k \in 1..Len(order) |-> Bare(order[k])]),
                                {"."})) : order \in iter_orders(ts)}

C8_Witness ==
    /\ pc = "render"
    /\ \E i \in 1..Len(documents) :
          /\ Cardinality(SourceTitles(documents[i].url)) = 3
          /\ documents[i].title
                = <<"A", ",", " ", "c", "\\", "\\", "\\", ",", " ", " ", "b">>

\* C9: started with zero or with two or more arguments, the program prints the
\* usage message and nothing else happens: the input is not loaded, no Document
\* is built, no file is created or changed, no error is raised.
C9_UsageOnly ==
    argc # 2 =>
        /\ pc \in {"main", "exit"}
        /\ stdout = (IF pc = "exit" THEN <<Usage>> ELSE <<>>)
        /\ parsed_json = <<>>
        /\ documents = <<>>
        /\ fs \in InitialFiles
        /\ raised = ""

C9_Witness ==
    /\ argc = 3
    /\ pc = "exit"
    /\ stdout = <<Usage>>
    /\ fs = StaleFiles

\* C10: clean_title of a title set with no title returns the empty string.
C10_EmptyTitleSet ==
    (fpc = "returned" /\ arg = {}) => ret = <<>>

=============================================================================
